---- MODULE Spec2Model ----
(***************************************************************************)
(* Reverse-mode differentiation core of dfdx: scalar arithmetic            *)
(* (tensor_ops/arith_scalar.rs), mean over an axis                         *)
(* (tensor_ops/impl_mean_axis.rs) and select along an axis                 *)
(* (tensor_ops/select.rs), together with the tape, the gradient store and  *)
(* the terminal backward pass they are written against.                    *)
(*                                                                         *)
(* f32 values are modelled by exact rationals <<n, d>> in lowest terms     *)
(* with d > 0.  Buffers are flat, row-major sequences; a shape is the      *)
(* sequence of its dimensions (<<>> for rank 0).                           *)
(***************************************************************************)
EXTENDS Integers, Sequences, FiniteSets, TLC

\* ------------------------------------------------------------------ bounds
\* number of operation calls in one forward chain, and largest axis size
MaxOps == 2
MaxDim == 2

\* --------------------------------------------------------------- rationals
Abs(x) == IF x < 0 THEN -x ELSE x

RECURSIVE Gcd(_, _)
Gcd(a, b) == IF b = 0 THEN a ELSE Gcd(b, a % b)

Norm(n, d) ==
    LET s == IF d < 0 THEN -1 ELSE 1
        g == Gcd(Abs(n), Abs(d))
    IN  <<(s * n) \div g, (s * d) \div g>>

R(k) == <<k, 1>>
RAdd(a, b) == Norm(a[1] * b[2] + b[1] * a[2], a[2] * b[2])
RSub(a, b) == Norm(a[1] * b[2] - b[1] * a[2], a[2] * b[2])
RMul(a, b) == Norm(a[1] * b[1], a[2] * b[2])
RDiv(a, b) == Norm(a[1] * b[2], a[2] * b[1])

\* element values of leaf tensors and scalar constants of the operations
Pool == <<R(1), R(2), R(-3), R(4), R(5), R(-6), R(0), R(7), R(-8), R(9), R(-10)>>
Consts == {<<1, 2>>, R(2)}

\* ------------------------------------------------------- shape and storage
RECURSIVE Prod(_)
Prod(s) == IF s = <<>> THEN 1 ELSE s[1] * Prod(Tail(s))

NumElements(shape) == Prod(shape)

\* position (1-based) in a shape of the const axis I (negative counts from
\* the innermost axis)
Ax(shape, I) == IF I < 0 THEN Len(shape) + 1 + I ELSE I + 1

Outer(shape, a) == Prod(SubSeq(shape, 1, a - 1))
Inner(shape, a) == Prod(SubSeq(shape, a + 1, Len(shape)))
RemoveAxis(shape, a) == SubSeq(shape, 1, a - 1) \o SubSeq(shape, a + 1, Len(shape))
ResizeAxis(shape, a, z) == SubSeq(shape, 1, a - 1) \o <<z>> \o SubSeq(shape, a + 1, Len(shape))

\* flat (1-based) offset of coordinate (o, n, i) around an axis of size N
Off(o, n, i, N, inner) == (o * N + n) * inner + i + 1

Zeros(shape) == [k \in 1..NumElements(shape) |-> R(0)]

\* ------------------------------------------------------------ Cpu device
\* Device::map and Device::zip_map_assign are written out where they are
\* called: [k \in DOMAIN data |-> f(data[k])] and [k \in DOMAIN l |-> f(l[k], r[k])]

\* Device::add_assign / Cpu::add - l[k] += r[k]
add_assign(l, r) == [k \in DOMAIN l |-> RAdd(l[k], r[k])]

\* Cpu::fill - every element set by the closure (here: the value v)
fill(data, v) == [k \in DOMAIN data |-> v]

\* Indices of a select: z = 0 is the single-index form (usize per outer
\* coordinate, the axis is removed), z >= 1 the collection form (the axis is
\* resized to z).  ix is flat, row-major over (outer coordinate, position).
NoIndices == [z |-> 0, ix |-> <<>>]
Width(i) == IF i.z = 0 THEN 1 ELSE i.z
IndexAt(i, o, z) == i.ix[o * Width(i) + z + 1]

\* shape of the result of a select along the axis at position a
SelectShape(shape, a, i) ==
    IF i.z = 0 THEN RemoveAxis(shape, a) ELSE ResizeAxis(shape, a, i.z)

\* Cpu::select_axis - out[o, z, n] = inp[o, indices[o, z], n], written into
\* the zero-initialised out
select_axis(inp, shape, a, i, out) ==
    LET N == shape[a]
        W == Width(i)
        inner == Inner(shape, a)
    IN  [k \in DOMAIN out |->
            LET o == (k - 1) \div (W * inner)
                z == ((k - 1) \div inner) % W
                n == (k - 1) % inner
            IN  inp[Off(o, IndexAt(i, o, z), n, N, inner)]]

\* Cpu::select_add - inp[o, indices[o, z], n] += out[o, z, n] for every
\* output coordinate, in order
RECURSIVE SelectAddFrom(_, _, _, _, _, _)
SelectAddFrom(inp, shape, a, i, out, k) ==
    IF k > Len(out) THEN inp
    ELSE LET N == shape[a]
             W == Width(i)
             inner == Inner(shape, a)
             o == (k - 1) \div (W * inner)
             z == ((k - 1) \div inner) % W
             n == (k - 1) % inner
             p == Off(o, IndexAt(i, o, z), n, N, inner)
         IN  SelectAddFrom([inp EXCEPT ![p] = RAdd(@, out[k])], shape, a, i, out, k + 1)

select_add(inp, shape, a, i, out) == SelectAddFrom(inp, shape, a, i, out, 1)

\* reduction of one axis by summation: out[o, n] = sum over j of inp[o, j, n]
RECURSIVE SumTo(_, _, _, _, _, _)
SumTo(inp, o, n, N, inner, j) ==
    IF j = 0 THEN R(0)
    ELSE RAdd(SumTo(inp, o, n, N, inner, j - 1), inp[Off(o, j - 1, n, N, inner)])

reduce_sum(inp, shape, a) ==
    LET N == shape[a]
        inner == Inner(shape, a)
    IN  [k \in 1..NumElements(RemoveAxis(shape, a)) |->
            SumTo(inp, (k - 1) \div inner, (k - 1) % inner, N, inner, N)]

\* broadcast of a reduced buffer back along the removed axis
broadcast(red, shape, a) ==
    LET N == shape[a]
        inner == Inner(shape, a)
    IN  [k \in 1..NumElements(shape) |->
            red[((k - 1) \div (N * inner)) * inner + ((k - 1) % inner) + 1]]

\* ------------------------------------------------------ tensors and tapes
\* NoTape records nothing; OwnedTape owns the list of backward operations
NoTape == [own |-> FALSE, ops |-> <<>>]
OwnedTape == [own |-> TRUE, ops |-> <<>>]

\* a tape that puts a new operation in front of the earlier ones
add_backward_op_front(tape, op) ==
    IF tape.own THEN [tape EXCEPT !.ops = <<op>> \o @] ELSE tape

\* Tape::add_backward_op
add_backward_op(tape, op) ==
    IF tape.own THEN [tape EXCEPT !.ops = Append(@, op)] ELSE tape

\* T::NoTape::new_boxed / TensorCreator::zeros - a tensor with a fresh id
new_boxed(nid, shape, data) == [id |-> nid, shape |-> shape, data |-> data, tape |-> NoTape]

\* Tensor::split_tape - the tensor without its tape, and the tape
split_tape(t) == <<[t EXCEPT !.tape = NoTape], t.tape>>

\* Tensor::put_tape
put_tape(t, tape) == [t EXCEPT !.tape = tape]

\* Tensor::phantom - the identity and shape of a tensor, without its data
phantom(t) == [id |-> t.id, shape |-> t.shape]

\* the tensor a backward operation captured by move
Captured(t) == [id |-> t.id, shape |-> t.shape, data |-> t.data]

\* a backward operation: the closure's kind and its captured values
BackwardOp(kind, t, result, val, axis, i) ==
    [op |-> kind, t |-> Captured(t), result |-> result, val |-> val, axis |-> axis, i |-> i]

\* --------------------------------------------------------- gradient store
\* Gradients: tensor id -> gradient buffer; absent ids are not in DOMAIN
NoGradients == [x \in {} |-> <<>>]

HasGradient(grads, t) == t.id \in DOMAIN grads

\* Gradients::mut_gradient - allocates a zero buffer on first access
mut_gradient(grads, t) ==
    IF HasGradient(grads, t) THEN grads ELSE grads @@ (t.id :> Zeros(t.shape))

\* Gradients::ref_gradient
ref_gradient(grads, t) ==
    IF HasGradient(grads, t) THEN grads[t.id] ELSE Zeros(t.shape)

\* writes buf into the (allocated) entry of t
SetGradient(grads, t, buf) == [mut_gradient(grads, t) EXCEPT ![t.id] = buf]

\* ------------------------------------------------- tensor_ops/arith_scalar
\* a closure of scalar_add that writes the gradient instead of adding it
scalar_add_backward_overwrite(op, grads) ==
    LET t1 == [op.t EXCEPT !.data =
                  [k \in DOMAIN @ |-> ref_gradient(grads, op.result)[k]]]
        g1 == mut_gradient(grads, t1)
    IN  [t |-> t1, grads |-> [g1 EXCEPT ![t1.id] = t1.data]]

\* closure of scalar_add: t.data <- grad(result); grad(t) += t.data
scalar_add_backward(op, grads) ==
    LET t1 == [op.t EXCEPT !.data =
                  [k \in DOMAIN @ |-> ref_gradient(grads, op.result)[k]]]
        g1 == mut_gradient(grads, t1)
    IN  [t |-> t1, grads |-> [g1 EXCEPT ![t1.id] = add_assign(@, t1.data)]]

\* closure of scalar_sub
scalar_sub_backward(op, grads) ==
    LET t1 == [op.t EXCEPT !.data =
                  [k \in DOMAIN @ |-> ref_gradient(grads, op.result)[k]]]
        g1 == mut_gradient(grads, t1)
    IN  [t |-> t1, grads |-> [g1 EXCEPT ![t1.id] = add_assign(@, t1.data)]]

\* a closure of scalar_mul that drops the factor val
scalar_mul_backward_copy(op, grads) ==
    LET t1 == [op.t EXCEPT !.data =
                  [k \in DOMAIN @ |-> ref_gradient(grads, op.result)[k]]]
        g1 == mut_gradient(grads, t1)
    IN  [t |-> t1, grads |-> [g1 EXCEPT ![t1.id] = add_assign(@, t1.data)]]

\* closure of scalar_mul: t.data <- val * grad(result); grad(t) += t.data
scalar_mul_backward(op, grads) ==
    LET t1 == [op.t EXCEPT !.data =
                  [k \in DOMAIN @ |-> RMul(op.val, ref_gradient(grads, op.result)[k])]]
        g1 == mut_gradient(grads, t1)
    IN  [t |-> t1, grads |-> [g1 EXCEPT ![t1.id] = add_assign(@, t1.data)]]

\* closure of scalar_div: t.data <- grad(result) / val; grad(t) += t.data
scalar_div_backward(op, grads) ==
    LET t1 == [op.t EXCEPT !.data =
                  [k \in DOMAIN @ |-> RDiv(ref_gradient(grads, op.result)[k], op.val)]]
        g1 == mut_gradient(grads, t1)
    IN  [t |-> t1, grads |-> [g1 EXCEPT ![t1.id] = add_assign(@, t1.data)]]

\* a scalar_add that hands the tape on without registering its closure
scalar_add_unrecorded(t, val, nid) ==
    LET result == new_boxed(nid, t.shape, [k \in DOMAIN t.data |-> RAdd(t.data[k], val)])
        sp == split_tape(t)
    IN  put_tape(result, sp[2])

\* scalar_add(t, val): nid is the id the result tensor is created with
scalar_add(t, val, nid) ==
    LET result == new_boxed(nid, t.shape, [k \in DOMAIN t.data |-> RAdd(t.data[k], val)])
        sp == split_tape(t)
        _result == phantom(result)
        tape == add_backward_op(sp[2],
                    BackwardOp("scalar_add", sp[1], _result, val, 0, NoIndices))
    IN  put_tape(result, tape)

\* a scalar_sub that computes in place, so that its closure captures the
\* result's values
scalar_sub_inplace(t, val, nid) ==
    LET result == new_boxed(nid, t.shape, [k \in DOMAIN t.data |-> RSub(t.data[k], val)])
        sp == split_tape(t)
        _result == phantom(result)
        tape == add_backward_op(sp[2],
                    BackwardOp("scalar_sub", [sp[1] EXCEPT !.data = result.data],
                               _result, val, 0, NoIndices))
    IN  put_tape(result, tape)

scalar_sub(t, val, nid) ==
    LET result == new_boxed(nid, t.shape, [k \in DOMAIN t.data |-> RSub(t.data[k], val)])
        sp == split_tape(t)
        _result == phantom(result)
        tape == add_backward_op(sp[2],
                    BackwardOp("scalar_sub", sp[1], _result, val, 0, NoIndices))
    IN  put_tape(result, tape)

scalar_mul(t, val, nid) ==
    LET result == new_boxed(nid, t.shape, [k \in DOMAIN t.data |-> RMul(t.data[k], val)])
        sp == split_tape(t)
        _result == phantom(result)
        tape == add_backward_op(sp[2],
                    BackwardOp("scalar_mul", sp[1], _result, val, 0, NoIndices))
    IN  put_tape(result, tape)

\* a scalar_div that multiplies
scalar_div_times(t, val, nid) ==
    LET result == new_boxed(nid, t.shape, [k \in DOMAIN t.data |-> RMul(t.data[k], val)])
        sp == split_tape(t)
        _result == phantom(result)
        tape == add_backward_op(sp[2],
                    BackwardOp("scalar_div", sp[1], _result, val, 0, NoIndices))
    IN  put_tape(result, tape)

scalar_div(t, val, nid) ==
    LET result == new_boxed(nid, t.shape, [k \in DOMAIN t.data |-> RDiv(t.data[k], val)])
        sp == split_tape(t)
        _result == phantom(result)
        tape == add_backward_op(sp[2],
                    BackwardOp("scalar_div", sp[1], _result, val, 0, NoIndices))
    IN  put_tape(result, tape)

\* ------------------------------------------------------------- reductions
\* utils::move_tape_and_add_backward_op
move_tape_and_add_backward_op(inp, out, kind, val, axis, i) ==
    LET phantom_out == phantom(out)
        sp == split_tape(inp)
        tape == add_backward_op(sp[2], BackwardOp(kind, sp[1], phantom_out, val, axis, i))
    IN  put_tape(out, tape)

\* closure of sum_axis: grad(t) += grad(result) broadcast along the axis
sum_axis_backward(op, grads) ==
    LET g1 == mut_gradient(grads, op.t)
        result_grad == ref_gradient(grads, op.result)
    IN  [t |-> op.t,
         grads |-> [g1 EXCEPT ![op.t.id] =
                       add_assign(@, broadcast(result_grad, op.t.shape, op.axis))]]

\* sum_axis::<T, I>(t)
sum_axis(t, I, nid) ==
    LET a == Ax(t.shape, I)
        result == new_boxed(nid, RemoveAxis(t.shape, a), reduce_sum(t.data, t.shape, a))
    IN  move_tape_and_add_backward_op(t, result, "sum_axis", R(0), a, NoIndices)

\* div_scalar(t, val): the scalar division of tensor_ops, by its other name
div_scalar(t, val, nid) == scalar_div(t, val, nid)

\* <T::Array as HasAxis<I>>::SIZE
AxisSize(shape, I) == shape[Ax(shape, I)]

\* a mean_axis that divides by the number of elements of the tensor
mean_axis_all(t, I, nid) ==
    div_scalar(sum_axis(t, I, nid), R(NumElements(t.shape)), nid + 1)

\* ------------------------------------------------ tensor_ops/impl_mean_axis
\* mean_axis::<T, I>(t): the two tensors it creates take ids nid and nid + 1
mean_axis(t, I, nid) ==
    div_scalar(sum_axis(t, I, nid), R(AxisSize(t.shape, I)), nid + 1)

\* ------------------------------------------------------- tensor_ops/select
\* a closure of select that does not clear t.data before the scatter
select_backward_unfilled(op, grads) ==
    LET g1 == mut_gradient(grads, op.t)
        result_grad == ref_gradient(grads, op.result)
        d1 == select_add(op.t.data, op.t.shape, op.axis, op.i, result_grad)
    IN  [t |-> [op.t EXCEPT !.data = d1],
         grads |-> [g1 EXCEPT ![op.t.id] = add_assign(@, d1)]]

\* a select that leaves its zero-initialised result unwritten
select_unwritten(t, indices, I, nid) ==
    LET a == Ax(t.shape, I)
        zero == new_boxed(nid, SelectShape(t.shape, a, indices),
                          Zeros(SelectShape(t.shape, a, indices)))
        i == indices
    IN  move_tape_and_add_backward_op(t, zero, "select", R(0), a, i)

\* closure of select: t.data <- 0; t.data[selected] += grad(result);
\* grad(t) += t.data
select_backward(op, grads) ==
    LET g1 == mut_gradient(grads, op.t)
        result_grad == ref_gradient(grads, op.result)
        z1 == fill(op.t.data, R(0))
        d1 == select_add(z1, op.t.shape, op.axis, op.i, result_grad)
    IN  [t |-> [op.t EXCEPT !.data = d1],
         grads |-> [g1 EXCEPT ![op.t.id] = add_assign(@, d1)]]

\* Select1::select(self, indices) along the const axis I
select(t, indices, I, nid) ==
    LET a == Ax(t.shape, I)
        zero == new_boxed(nid, SelectShape(t.shape, a, indices),
                          Zeros(SelectShape(t.shape, a, indices)))
        result == [zero EXCEPT !.data = select_axis(t.data, t.shape, a, indices, @)]
        i == indices
    IN  move_tape_and_add_backward_op(t, result, "select", R(0), a, i)

\* ----------------------------------------------------- running a closure
\* calls the boxed closure of a backward operation on the gradient store
RunBackwardOp(op, grads) ==
    CASE op.op = "scalar_add" -> scalar_add_backward(op, grads)
      [] op.op = "scalar_sub" -> scalar_sub_backward(op, grads)
      [] op.op = "scalar_mul" -> scalar_mul_backward(op, grads)
      [] op.op = "scalar_div" -> scalar_div_backward(op, grads)
      [] op.op = "sum_axis" -> sum_axis_backward(op, grads)
      [] op.op = "select" -> select_backward(op, grads)

\* ------------------------------------------------------------ the program
\* A caller builds a leaf tensor, keeps it, and runs a chain of operations
\* on a traced (OwnedTape) or plain (NoTape) duplicate of it; a rank-0
\* traced result is handed to backward(), which drains the tape.
VARIABLES
    pc,       \* "forward", "backward" (inside the pass), "done", "closure"
    leaf,     \* the caller's leaf tensor
    cur,      \* the tensor value the chain currently owns
    nextId,   \* the unique id counter
    pending,  \* backward(): the operations of the tape not yet executed
    grads,    \* backward(): the gradient store
    calls,    \* history: the operation calls made, in order
    ran,      \* history: the backward operations executed, in order
    fwd       \* history: tensor id -> the data its storage was created with

vars == <<pc, leaf, cur, nextId, pending, grads, calls, ran, fwd>>

\* shapes of rank 0, 1 and 2 over the axis sizes 1..MaxDim
Dims == 1..MaxDim
Shapes == {<<>>} \cup {<<m>> : m \in Dims} \cup {<<m, n>> : m \in Dims, n \in Dims}

\* leaf contents: the pool of values, started at offset s; the offsets of the
\* gradient buffers a store is filled with before a closure runs on it
Seeds == {0}
Fills == {1, 4}
LeafData(shape, s) ==
    [k \in 1..NumElements(shape) |-> Pool[((k - 1 + s) % Len(Pool)) + 1]]

\* const axes a tensor of this shape can be reduced or selected along
Axes(shape) == IF Len(shape) = 0 THEN {} ELSE (0..(Len(shape) - 2)) \cup {-1}

\* in-range index arguments of a select along an axis of size N below
\* outer coordinates 0..O-1: the row of outer coordinate o holds
\* (c + j * d + o * s) % N at position j, so rows repeat an index (d = 0),
\* run through the axis (d = 1), and agree (s = 0) or differ (s = 1)
IndexChoices(O, N) ==
    UNION { { [z |-> w, ix |-> [k \in 1..(O * Width([z |-> w])) |->
                  LET W == Width([z |-> w])
                  IN  (c + ((k - 1) % W) * d + ((k - 1) \div W) * s) % N]]
              : c \in 0..(N - 1), d \in {0, 1}, s \in {0, 1} }
            : w \in 0..MaxDim }

Init ==
    /\ pc = "forward"
    /\ \E shape \in Shapes, s \in Seeds, tape \in {NoTape, OwnedTape} :
          /\ leaf = new_boxed(0, shape, LeafData(shape, s))
          /\ cur = put_tape(new_boxed(0, shape, LeafData(shape, s)), tape)
    /\ nextId = 1
    /\ pending = <<>>
    /\ grads = NoGradients
    /\ calls = <<>>
    /\ ran = <<>>
    /\ fwd = (0 :> leaf.data)

\* the operations a call appended to the tape
Appended(before, after) == SubSeq(after, Len(before) + 1, Len(after))

\* one operation call: cur is moved into the operation, out is its result
Call(name, out, val, I, i) ==
    /\ cur' = out
    /\ nextId' = out.id + 1
    /\ calls' = Append(calls,
          [name |-> name, tin |-> Captured(cur), tout |-> Captured(out),
           own |-> cur.tape.own, before |-> cur.tape.ops, ops |-> out.tape.ops,
           rown |-> out.tape.own, val |-> val, I |-> I, i |-> i])
    /\ fwd' = LET new == Appended(cur.tape.ops, out.tape.ops)
                  mid == [x \in {new[k].t.id : k \in DOMAIN new} \ DOMAIN fwd |->
                             (CHOOSE k \in DOMAIN new : new[k].t.id = x) ]
              IN  (out.id :> out.data) @@ fwd
                     @@ [x \in DOMAIN mid |-> new[mid[x]].t.data]
    /\ UNCHANGED <<pc, leaf, pending, grads, ran>>

CanCall == pc = "forward" /\ Len(calls) < MaxOps

ScalarAdd ==
    /\ CanCall
    /\ \E val \in Consts : Call("scalar_add", scalar_add(cur, val, nextId), val, 0, NoIndices)

ScalarSub ==
    /\ CanCall
    /\ \E val \in Consts : Call("scalar_sub", scalar_sub(cur, val, nextId), val, 0, NoIndices)

ScalarMul ==
    /\ CanCall
    /\ \E val \in Consts : Call("scalar_mul", scalar_mul(cur, val, nextId), val, 0, NoIndices)

ScalarDiv ==
    /\ CanCall
    /\ \E val \in Consts : Call("scalar_div", scalar_div(cur, val, nextId), val, 0, NoIndices)

SumAxis ==
    /\ CanCall
    /\ \E I \in Axes(cur.shape) :
          Call("sum_axis", sum_axis(cur, I, nextId), R(0), I, NoIndices)

MeanAxis ==
    /\ CanCall
    /\ \E I \in Axes(cur.shape) :
          Call("mean_axis", mean_axis(cur, I, nextId), R(0), I, NoIndices)

Select ==
    /\ CanCall
    /\ \E I \in Axes(cur.shape) :
          \E i \in IndexChoices(Outer(cur.shape, Ax(cur.shape, I)), AxisSize(cur.shape, I)) :
             /\ Call("select", select(cur, i, I, nextId), R(0), I, i)

\* Tensor0D<OwnedTape>::backward(): the tape is split off the tensor, the
\* gradient of the tensor is set to 1.0
BackwardBegin ==
    /\ pc = "forward"
    /\ cur.tape.own
    /\ cur.shape = <<>>
    /\ LET sp == split_tape(cur)
       IN  /\ cur' = sp[1]
           /\ pending' = sp[2].ops
           /\ grads' = SetGradient(NoGradients, sp[1], <<R(1)>>)
    /\ pc' = "backward"
    /\ UNCHANGED <<leaf, nextId, calls, ran, fwd>>

\* a pass that takes the operations first registered first
NextOp_first(ops) == ops[1]

\* which operation the pass takes next, and what is left
NextOp(ops) == ops[Len(ops)]
Rest(ops) == SubSeq(ops, 1, Len(ops) - 1)

\* the entry of the history for one executed operation
RanEntry(op, out, before) ==
    [op |-> [op EXCEPT !.t = out.t],
     before |-> before,
     after |-> out.grads]

\* the last operation of the tape is popped and called on the store
PopAndCall ==
    /\ pending /= <<>>
    /\ LET op == NextOp(pending)
           out == RunBackwardOp(op, grads)
       IN  /\ grads' = out.grads
           /\ pending' = Rest(pending)
           /\ ran' = Append(ran, RanEntry(op, out, grads))
    /\ UNCHANGED <<pc, leaf, cur, nextId, calls, fwd>>

\* backward(): one operation is popped and called
BackwardStep ==
    /\ pc = "backward"
    /\ PopAndCall

\* backward(): the tape is empty, the gradient store is returned
BackwardReturn ==
    /\ pc = "backward"
    /\ pending = <<>>
    /\ pc' = "done"
    /\ UNCHANGED <<leaf, cur, nextId, pending, grads, calls, ran, fwd>>

Next ==
    \/ ScalarAdd
    \/ ScalarSub
    \/ ScalarMul
    \/ ScalarDiv
    \/ SumAxis
    \/ MeanAxis
    \/ Select
    \/ BackwardBegin
    \/ BackwardStep
    \/ BackwardReturn

Spec == Init /\ [][Next]_vars

\* ----------------------------------------------- closures on any store
\* The closures are FnOnce(&mut Gradients): they are also run here on
\* stores in which the gradient of the input is absent or already holds
\* what another consumer of the input added, after one operation call on a
\* traced leaf.
OneCall(t, nid) ==
    {[name |-> "scalar_add", out |-> scalar_add(t, val, nid), val |-> val, I |-> 0,
      i |-> NoIndices] : val \in Consts}
    \cup {[name |-> "scalar_sub", out |-> scalar_sub(t, val, nid), val |-> val, I |-> 0,
           i |-> NoIndices] : val \in Consts}
    \cup {[name |-> "scalar_mul", out |-> scalar_mul(t, val, nid), val |-> val, I |-> 0,
           i |-> NoIndices] : val \in Consts}
    \cup {[name |-> "scalar_div", out |-> scalar_div(t, val, nid), val |-> val, I |-> 0,
           i |-> NoIndices] : val \in Consts}
    \cup {[name |-> "mean_axis", out |-> mean_axis(t, I, nid), val |-> R(0), I |-> I,
           i |-> NoIndices] : I \in Axes(t.shape)}
    \cup UNION {{[name |-> "select", out |-> select(t, i, I, nid), val |-> R(0), I |-> I,
                  i |-> i]
                  : i \in IndexChoices(Outer(t.shape, Ax(t.shape, I)), AxisSize(t.shape, I))}
                : I \in Axes(t.shape)}

InitStore ==
    /\ pc = "closure"
    /\ ran = <<>>
    /\ \E shape \in Shapes, s \in Seeds :
          /\ leaf = new_boxed(0, shape, LeafData(shape, s))
          /\ \E c \in OneCall(put_tape(leaf, OwnedTape), 1) :
                /\ cur = split_tape(c.out)[1]
                /\ nextId = c.out.id + 1
                /\ pending = c.out.tape.ops
                /\ calls = <<[name |-> c.name, tin |-> Captured(leaf),
                              tout |-> Captured(c.out), own |-> TRUE, before |-> <<>>,
                              ops |-> c.out.tape.ops, rown |-> TRUE, val |-> c.val,
                              I |-> c.I, i |-> c.i]>>
                /\ fwd = (0 :> leaf.data) @@ (c.out.id :> c.out.data)
                /\ \E u \in Fills, prior \in {<<>>} \cup {<<w>> : w \in Fills} :
                      grads = (c.out.id :> LeafData(c.out.shape, u))
                              @@ (IF prior = <<>> THEN NoGradients
                                  ELSE (0 :> LeafData(shape, prior[1] + 2)))

\* the next closure of the tape is called
ClosureStep ==
    /\ pc = "closure"
    /\ PopAndCall

NextStore == ClosureStep

SpecStore == InitStore /\ [][NextStore]_vars

\* ================================================================ claims
ScalarNames == {"scalar_add", "scalar_sub", "scalar_mul", "scalar_div"}

\* the gradient an executed operation read for its result, and what it added
\* to the gradient of its input
Upstream(e) == e.before[e.op.result.id]
PriorOf(e) ==
    IF e.op.t.id \in DOMAIN e.before THEN e.before[e.op.t.id] ELSE Zeros(e.op.t.shape)
Contribution(e) ==
    [k \in DOMAIN e.after[e.op.t.id] |-> RSub(e.after[e.op.t.id][k], PriorOf(e)[k])]

\* the tape handed to the backward pass
Registered == IF calls = <<>> THEN <<>> ELSE calls[Len(calls)].ops

ResultIds(ops) == [k \in DOMAIN ops |-> ops[k].result.id]
RanIds == [k \in DOMAIN ran |-> ran[k].op.result.id]
Reverse(q) == [k \in DOMAIN q |-> q[Len(q) + 1 - k]]

\* ---------------------------------------------------------------- C1
\* C1 as stated: every call of a primitive operation, mean_axis included, on
\* a tracking input returns a tracking result whose tape is the input's tape
\* plus exactly one operation; on an inert input nothing is recorded.
C1_OneRecordPerCall ==
    \A k \in DOMAIN calls :
        LET c == calls[k]
        IN  IF c.own
            THEN /\ c.rown
                 /\ Len(c.ops) = Len(c.before) + 1
                 /\ SubSeq(c.ops, 1, Len(c.before)) = c.before
            ELSE /\ ~c.rown
                 /\ c.ops = <<>>

\* C1 amended: scalar_add, scalar_sub, scalar_mul, scalar_div and select
\* append exactly one operation to a tracking input's tape, and mean_axis
\* appends exactly two (sum_axis's, then the division's); the earlier
\* operations stay in place and in order, the result is tracking; on an
\* inert input nothing is recorded and the result is inert.
C1_RecordsPerCall ==
    \A k \in DOMAIN calls :
        LET c == calls[k]
            new == Appended(c.before, c.ops)
        IN  IF c.own
            THEN /\ c.rown
                 /\ SubSeq(c.ops, 1, Len(c.before)) = c.before
                 /\ c.name \in ScalarNames \cup {"select"} =>
                       /\ Len(new) = 1
                       /\ new[1].op = c.name
                       /\ new[1].t = c.tin
                       /\ new[1].result.id = c.tout.id
                 /\ c.name = "mean_axis" =>
                       /\ Len(new) = 2
                       /\ new[1].op = "sum_axis" /\ new[1].t = c.tin
                       /\ new[2].op = "scalar_div" /\ new[2].t.id = new[1].result.id
                       /\ new[2].result.id = c.tout.id
            ELSE /\ ~c.rown
                 /\ c.ops = <<>>

C1_Witness ==
    /\ Len(calls) = 2
    /\ calls[1].own /\ calls[1].name = "scalar_add"
    /\ calls[2].name = "mean_axis" /\ Len(calls[2].ops) = 3

\* ---------------------------------------------------------------- C2
\* C2: inside and after the backward pass on a rank-0 tracking tensor the
\* gradient of that tensor was set to 1.0 before any operation ran, the
\* operations executed so far are the last ones registered, taken last
\* first, none twice, and when the pass returns every operation has run
\* once and the tape is empty.
C2_ReverseOrderOnce ==
    pc \in {"backward", "done"} =>
        /\ cur.shape = <<>>
        /\ cur.id \in DOMAIN grads /\ grads[cur.id] = <<R(1)>>
        /\ ran = <<>> => grads = (cur.id :> <<R(1)>>)
        /\ \A k \in DOMAIN ran : cur.id \in DOMAIN ran[k].before
        /\ ResultIds(pending) \o Reverse(RanIds) = ResultIds(Registered)
        /\ \A j, k \in DOMAIN ran : j /= k => RanIds[j] /= RanIds[k]
        /\ pc = "done" => pending = <<>> /\ Len(ran) = Len(Registered)

C2_Witness == pc = "done" /\ Len(ran) >= 3

\* ---------------------------------------------------------------- C3
\* the sum of what the operations run before position k added to tensor x
RECURSIVE Incoming(_, _, _)
Incoming(x, shape, k) ==
    IF k = 0 THEN Zeros(shape)
    ELSE IF ran[k].op.t.id = x
         THEN add_assign(Incoming(x, shape, k - 1), Contribution(ran[k]))
         ELSE Incoming(x, shape, k - 1)

\* C3: when the operation that produced tensor X runs, every registered
\* operation that consumed X has already run, the gradient it reads for X
\* has been written (by the seed or an earlier operation), and it is the
\* sum of what the consumers of X added (the seed for the final tensor).
C3_ConsumersBeforeProducer ==
    \A k \in DOMAIN ran :
        LET e == ran[k]
            x == e.op.result
        IN  /\ x.id \in DOMAIN e.before
            /\ \A j \in DOMAIN Registered :
                  Registered[j].t.id = x.id =>
                      \E m \in 1..(k - 1) : ran[m].op.result.id = Registered[j].result.id
            /\ Upstream(e) = IF x.id = cur.id THEN <<R(1)>>
                             ELSE Incoming(x.id, x.shape, k - 1)

C3_Witness ==
    /\ Len(ran) >= 2
    /\ ran[2].op.result.id = ran[1].op.t.id
    /\ ran[2].op.op = "select"

\* ---------------------------------------------------------------- C4
\* the local derivative of a scalar operation applied to the gradient g
ScalarLocal(name, val, g) ==
    CASE name \in {"scalar_add", "scalar_sub"} -> g
      [] name = "scalar_mul" -> [k \in DOMAIN g |-> RMul(val, g[k])]
      [] name = "scalar_div" -> [k \in DOMAIN g |-> RDiv(g[k], val)]

Chain(n1, n2) ==
    /\ pc = "done" /\ Len(calls) = 2
    /\ calls[1].name = n1 /\ calls[2].name = n2

\* C4: an executed scalar operation adds to the gradient of its input, at
\* every element, g for add and sub, c*g for mul and g/c for div, g being
\* the gradient of its result at that element; and the finished backward
\* pass of sum(t + c) leaves gradient 1, that of sum(t * c) gradient c, at
\* every element of t.
C4_ScalarGradients ==
    /\ \A k \in DOMAIN ran :
          ran[k].op.op \in ScalarNames =>
              Contribution(ran[k]) = ScalarLocal(ran[k].op.op, ran[k].op.val, Upstream(ran[k]))
    /\ Chain("scalar_add", "sum_axis") => grads[leaf.id] = [k \in DOMAIN leaf.data |-> R(1)]
    /\ Chain("scalar_mul", "sum_axis") =>
          grads[leaf.id] = [k \in DOMAIN leaf.data |-> calls[1].val]

C4_Witness ==
    /\ Chain("scalar_mul", "sum_axis")
    /\ leaf.shape = <<MaxDim>>
    /\ calls[1].val = <<1, 2>>

\* ---------------------------------------------------------------- C5
ScalarForward(name, x, c) ==
    CASE name = "scalar_add" -> RAdd(x, c)
      [] name = "scalar_sub" -> RSub(x, c)
      [] name = "scalar_mul" -> RMul(x, c)
      [] name = "scalar_div" -> RDiv(x, c)

\* C5: in either tape mode a scalar operation returns a tensor of the shape
\* of its input whose element at every position is the input's element
\* there plus, minus, times or divided by the constant.
C5_ScalarForward ==
    \A k \in DOMAIN calls :
        LET c == calls[k]
        IN  c.name \in ScalarNames =>
               /\ c.tout.shape = c.tin.shape
               /\ DOMAIN c.tout.data = 1..NumElements(c.tin.shape)
               /\ \A p \in DOMAIN c.tin.data :
                     c.tout.data[p] = ScalarForward(c.name, c.tin.data[p], c.val)

C5_Witness ==
    \E k \in DOMAIN calls :
        /\ calls[k].name = "scalar_div" /\ ~calls[k].own
        /\ calls[k].tin.shape = <<MaxDim, MaxDim>>
        /\ calls[k].tin.data[1] = R(1) /\ calls[k].val = R(2)
        /\ calls[k].tout.data[1] = <<1, 2>>

\* ------------------------------------------------------------ coordinates
\* row-major coordinates of the 0-based flat position q, and back
RECURSIVE Unflat(_, _)
Unflat(q, shape) ==
    IF shape = <<>> THEN <<>>
    ELSE LET last == shape[Len(shape)]
         IN  Append(Unflat(q \div last, SubSeq(shape, 1, Len(shape) - 1)), q % last)

RECURSIVE Flat(_, _)
Flat(co, shape) ==
    IF shape = <<>> THEN 0
    ELSE LET n == Len(shape)
         IN  Flat(SubSeq(co, 1, n - 1), SubSeq(shape, 1, n - 1)) * shape[n] + co[n]

\* the coordinates without the one of the axis at position a
Drop(co, a) == SubSeq(co, 1, a - 1) \o SubSeq(co, a + 1, Len(co))

\* the (1-based) input position a select copies to the output position q + 1
SourcePos(shape, a, i, q) ==
    LET oc == Unflat(q, SelectShape(shape, a, i))
        lead == SubSeq(oc, 1, a - 1)
        at == IF i.z = 0
              THEN Flat(lead, SubSeq(shape, 1, a - 1))
              ELSE Flat(Append(lead, oc[a]), Append(SubSeq(shape, 1, a - 1), i.z))
        rest == IF i.z = 0 THEN SubSeq(oc, a, Len(oc)) ELSE SubSeq(oc, a + 1, Len(oc))
    IN  Flat(lead \o <<i.ix[at + 1]>> \o rest, shape) + 1

\* the sum of g over the output positions 1..q that were copied from p
RECURSIVE Gathered(_, _, _, _, _, _)
Gathered(g, shape, a, i, p, q) ==
    IF q = 0 THEN R(0)
    ELSE IF SourcePos(shape, a, i, q - 1) = p
         THEN RAdd(Gathered(g, shape, a, i, p, q - 1), g[q])
         ELSE Gathered(g, shape, a, i, p, q - 1)

Sources(shape, a, i, p) ==
    {q \in 1..NumElements(SelectShape(shape, a, i)) : SourcePos(shape, a, i, q - 1) = p}

\* ---------------------------------------------------------------- C6
\* C6: after the backward pass every element of the input of a mean_axis
\* over an axis of size N holds the gradient of the output element it was
\* reduced into, divided by N.
C6_MeanAxisGradient ==
    pc = "done" =>
        \A k \in DOMAIN calls :
            LET c == calls[k]
                a == Ax(c.tin.shape, c.I)
            IN  c.name = "mean_axis" =>
                   /\ c.tout.shape = RemoveAxis(c.tin.shape, a)
                   /\ DOMAIN grads[c.tin.id] = 1..NumElements(c.tin.shape)
                   /\ \A p \in 1..NumElements(c.tin.shape) :
                         grads[c.tin.id][p] =
                            RDiv(grads[c.tout.id][
                                    Flat(Drop(Unflat(p - 1, c.tin.shape), a), c.tout.shape) + 1],
                                 R(c.tin.shape[a]))

C6_Witness ==
    /\ pc = "done" /\ Len(calls) = 2
    /\ calls[1].name = "mean_axis" /\ calls[1].tin.shape = <<MaxDim, MaxDim>> /\ calls[1].I = 0
    /\ calls[2].name = "select"
    /\ grads[calls[1].tout.id] /= Zeros(calls[1].tout.shape)

\* ---------------------------------------------------------------- C7
\* C7: the result of a select has the input's shape with the axis removed
\* (single index) or resized to Z (index collection), and every output
\* element is the input element at the same coordinates with the index
\* value substituted on the selected axis.
C7_SelectForward ==
    \A k \in DOMAIN calls :
        LET c == calls[k]
            a == Ax(c.tin.shape, c.I)
        IN  c.name = "select" =>
               /\ c.tout.shape = IF c.i.z = 0 THEN RemoveAxis(c.tin.shape, a)
                                 ELSE ResizeAxis(c.tin.shape, a, c.i.z)
               /\ DOMAIN c.tout.data = 1..NumElements(c.tout.shape)
               /\ \A q \in DOMAIN c.tout.data :
                     c.tout.data[q] = c.tin.data[SourcePos(c.tin.shape, a, c.i, q - 1)]

\* an input element copied twice and another never, on the inner axis of a
\* rank-2 tensor
C7_Witness ==
    \E k \in DOMAIN calls :
        LET c == calls[k]
        IN  /\ c.name = "select" /\ c.tin.shape = <<MaxDim, MaxDim>> /\ c.I = -1
            /\ c.i.z = MaxDim
            /\ Cardinality(Sources(c.tin.shape, 2, c.i, 1)) = 0
            /\ Cardinality(Sources(c.tin.shape, 2, c.i, 2)) >= 2

\* ---------------------------------------------------------------- C8
\* C8: an executed select adds to the gradient of its input, at every
\* position, the sum of the gradients of the output positions copied from
\* it: nothing where none was, the one gradient unchanged where one was;
\* after the pass the gradient of the input of a select is that sum.
C8_SelectScatterAdd ==
    /\ \A k \in DOMAIN ran :
          LET e == ran[k]
          IN  e.op.op = "select" =>
                 \A p \in 1..NumElements(e.op.t.shape) :
                    LET from == Sources(e.op.t.shape, e.op.axis, e.op.i, p)
                    IN  /\ Contribution(e)[p] =
                              Gathered(Upstream(e), e.op.t.shape, e.op.axis, e.op.i, p,
                                       Len(Upstream(e)))
                        /\ from = {} => Contribution(e)[p] = R(0)
                        /\ \A q \in from : from = {q} => Contribution(e)[p] = Upstream(e)[q]
    /\ pc = "done" =>
          \A k \in DOMAIN calls :
              LET c == calls[k]
                  a == Ax(c.tin.shape, c.I)
              IN  c.name = "select" =>
                     \A p \in 1..NumElements(c.tin.shape) :
                        grads[c.tin.id][p] =
                           Gathered(grads[c.tout.id], c.tin.shape, a, c.i, p,
                                    Len(grads[c.tout.id]))

\* a position selected twice with nonzero gradients, and one never selected
C8_Witness ==
    /\ pc = "done"
    /\ \E k \in DOMAIN ran :
          LET e == ran[k]
          IN  /\ e.op.op = "select" /\ e.op.t.shape = <<MaxDim>>
              /\ Sources(e.op.t.shape, 1, e.op.i, 1) = {}
              /\ Cardinality(Sources(e.op.t.shape, 1, e.op.i, 2)) = 2
              /\ Contribution(e)[2] = <<1, 1>>
              /\ \A q \in DOMAIN Upstream(e) : Upstream(e)[q] = <<1, 2>>

\* ---------------------------------------------------------------- C9
\* what an operation's local derivative makes of the gradient g of its result
Local(op, g) ==
    CASE op.op \in ScalarNames -> ScalarLocal(op.op, op.val, g)
      [] op.op = "sum_axis" ->
            [p \in 1..NumElements(op.t.shape) |->
                g[Flat(Drop(Unflat(p - 1, op.t.shape), op.axis), op.result.shape) + 1]]
      [] op.op = "select" ->
            [p \in 1..NumElements(op.t.shape) |->
                Gathered(g, op.t.shape, op.axis, op.i, p, Len(g))]

\* every executed operation found zero at a first access and left every
\* other entry of the store alone
StoreFrame(e) ==
    /\ DOMAIN e.after = DOMAIN e.before \cup {e.op.t.id}
    /\ \A x \in DOMAIN e.before : x /= e.op.t.id => e.after[x] = e.before[x]

\* C9 as stated: an entry is zero at its first access and an operation adds
\* its contribution to the entry of its input, except scalar add and sub,
\* which overwrite the entry with the transported gradient of the result
\* instead of adding into what it held.
C9_AddSubOverwriteSlot ==
    \A k \in DOMAIN ran :
        LET e == ran[k]
        IN  /\ StoreFrame(e)
            /\ IF e.op.op \in {"scalar_add", "scalar_sub"}
               THEN e.after[e.op.t.id] = Upstream(e)
               ELSE e.after[e.op.t.id] = add_assign(PriorOf(e), Local(e.op, Upstream(e)))

\* C9 amended: an entry is zero at its first access and every operation,
\* scalar add and sub included, adds its contribution to what the entry of
\* its input held and writes no other entry; what scalar add and sub
\* overwrite with the transported gradient is the storage of the input
\* tensor they captured, which is then added into the entry.
C9_OnlyAddsIntoSlot ==
    \A k \in DOMAIN ran :
        LET e == ran[k]
        IN  /\ StoreFrame(e)
            /\ e.after[e.op.t.id] = add_assign(PriorOf(e), Local(e.op, Upstream(e)))
            /\ e.op.op \in {"scalar_add", "scalar_sub"} => e.op.t.data = Upstream(e)

\* scalar add run on a store in which its input's entry was already nonzero
C9_Witness ==
    \E k \in DOMAIN ran :
        LET e == ran[k]
        IN  /\ e.op.op = "scalar_add"
            /\ e.op.t.id \in DOMAIN e.before
            /\ \A p \in DOMAIN PriorOf(e) : PriorOf(e)[p] /= R(0) /\ Upstream(e)[p] /= R(0)
            /\ e.op.t.shape = <<MaxDim>>

\* --------------------------------------------------------------- C10
Intact(t) == t.data = fwd[t.id]

\* the storage nobody has run a closure on: the caller's leaf, the current
\* tensor, the inputs captured by the operations still on a tape
LiveIntact ==
    /\ Intact(leaf)
    /\ Intact(cur)
    /\ \A k \in DOMAIN cur.tape.ops : Intact(cur.tape.ops[k].t)
    /\ \A k \in DOMAIN pending : Intact(pending[k].t)

\* C10 as stated: every storage, the input captured by an executed backward
\* operation included, holds its forward values until the pass has ended.
C10_NoStorageWritten ==
    /\ LiveIntact
    /\ \A k \in DOMAIN ran : Intact(ran[k].op.t)

\* C10 amended: no forward operation writes to the storage of an existing
\* tensor and a backward operation writes to no storage but that of the
\* input it captured: the leaf, the current tensor and the inputs captured
\* by the operations not yet run hold their forward values, and a scalar or
\* select operation that has run has overwritten its captured input with
\* the contribution it added to the gradient.
C10_OnlyOwnCaptureWritten ==
    /\ LiveIntact
    /\ \A k \in DOMAIN ran :
          LET e == ran[k]
          IN  IF e.op.op \in ScalarNames \cup {"select"}
              THEN e.op.t.data = Local(e.op, Upstream(e))
              ELSE Intact(e.op.t)

C10_Witness ==
    /\ pc = "done"
    /\ Len(ran) = 2
    /\ ran[2].op.op = "scalar_mul" /\ ran[2].op.t.id = leaf.id
    /\ ran[2].op.t.data /= fwd[leaf.id]
    /\ leaf.shape = <<MaxDim>>

====
